---------------------------- MODULE Spec2Model ----------------------------
(***************************************************************************)
(* A model of the two QR encoders of the repository:                       *)
(*   src/qrcodegen.js       class-based encoder (BitBuffer, Galois,        *)
(*                          ReedSolomon, QRMatrix, QRCode)                 *)
(*   src/unnamed/part_000   function-based encoder (encodeSegments,        *)
(*                          placeData, drawFormat, penalty, encode)        *)
(* JavaScript arrays are 0-based; sequences here are 1-based, so a[i] of   *)
(* the source is a[i + 1] here.  Matrices are functions over 0..size-1.    *)
(***************************************************************************)
EXTENDS Integers, Sequences, FiniteSets, TLC

VARIABLES
  prog,            \* which program this behaviour runs
  \* ---- src/qrcodegen.js: QRCode instance and the locals of generate()
  text,            \* this.text, a sequence of UTF-16 code units
  optVersion,      \* this.options.version: "auto" or an integer
  optMask,         \* this.options.mask: "auto" or an integer
  ecLevel,         \* this.ecLevel
  pc,              \* position inside generate()
  err,             \* message of the Error generate() threw, "" if none
  dataBytes,       \* const dataBytes = this._utf8Bytes(this.text)
  version,         \* this.version
  dataCodewords,   \* const dataCodewords
  ecCount,         \* const ecCount (NaN when the table lookup is undefined)
  finalBits,       \* const finalBits
  matrix,          \* this.matrix.modules
  bitIndex,        \* bitIndex of placeDataBits when it returned
  m,               \* loop variable of the mask loop
  bestMask, bestScore, bestModules,
  mask,            \* this.mask
  gf,              \* the Galois instance: its exp and log tables
  generatorCache,  \* ReedSolomon.generatorCache
  \* ---- Reed-Solomon round trip (ReedSolomon used on its own)
  rsPc, rsData, rsN, rsEC, rsRem,
  \* ---- src/unnamed/part_000: QRCode.generate(text, version, ecl) and the
  \* locals of encode(); the names carry a 0 where they meet one above
  text0,           \* argument text, a sequence of UTF-16 code units
  version0,        \* argument version, 0 when it is omitted
  ecl0,            \* ecl, "" when the argument is omitted
  v0,              \* loop variable v of generate
  pc0,             \* position inside generate / encode
  err0,            \* message of the Error generate threw, "" if none
  m0,              \* var m of encode: the matrix with the fixed patterns
  bits0,           \* var bits
  mask0,           \* loop variable mask
  bestMask0, bestScore0,
  bestM0           \* var bestM, <<>> while it is null

lite == <<text, optVersion, optMask, ecLevel, pc, err, dataBytes, version, dataCodewords,
          ecCount, finalBits, matrix, bitIndex, m, bestMask, bestScore,
          bestModules, mask>>
rsv  == <<rsPc, rsData, rsN, rsEC, rsRem>>
p0v  == <<text0, version0, ecl0, v0, pc0, err0, m0, bits0, mask0, bestMask0,
          bestScore0, bestM0>>
vars == <<prog, lite, gf, generatorCache, rsv, p0v>>

Min(a, b) == IF a < b THEN a ELSE b
Max(a, b) == IF a > b THEN a ELSE b

\* for (i = lo; i <= hi; i++) acc = Body(acc, i), the passes in order.  The
\* range is halved, and the value so far (an array or an object) is evaluated
\* before the passes that use it (the DOMAIN tests, always true), which keeps
\* the evaluation stack shallow.
RECURSIVE LoopRec(_, _, _, _)
LoopRec(Body(_, _), acc, lo, hi) ==
  IF lo > hi THEN acc
  ELSE IF lo = hi THEN Body(acc, lo)
  ELSE LET mid == (lo + hi) \div 2
           left == LoopRec(Body, acc, lo, mid)
       IN  IF Len(<<left>>) = 1 THEN LoopRec(Body, left, mid + 1, hi) ELSE left

Loop(Body(_, _), acc, lo, hi) ==
  IF Len(<<acc>>) = 1 THEN LoopRec(Body, acc, lo, hi) ELSE acc

-----------------------------------------------------------------------------
(* Bitwise operators of JavaScript on non-negative integers.               *)

RECURSIVE BitXor(_, _)
BitXor(a, b) ==
  IF a = 0 THEN b
  ELSE IF b = 0 THEN a
  ELSE ((a + b) % 2) + 2 * BitXor(a \div 2, b \div 2)

RECURSIVE BitOr(_, _)
BitOr(a, b) ==
  IF a = 0 THEN b
  ELSE IF b = 0 THEN a
  ELSE Max(a % 2, b % 2) + (2 * BitOr(a \div 2, b \div 2))

RECURSIVE BitAnd(_, _)
BitAnd(a, b) ==
  IF a = 0 \/ b = 0 THEN 0
  ELSE ((a % 2) * (b % 2)) + (2 * BitAnd(a \div 2, b \div 2))

\* 2^n for the shift counts 0..30
PowersOf2 ==
  <<1, 2, 4, 8, 16, 32, 64, 128, 256, 512, 1024, 2048, 4096, 8192, 16384,
    32768, 65536, 131072, 262144, 524288, 1048576, 2097152, 4194304, 8388608,
    16777216, 33554432, 67108864, 134217728, 268435456, 536870912, 1073741824>>
Pow2(n) == PowersOf2[n + 1]

Shr(a, n) == a \div Pow2(n)          \* a >>> n, a >> n for a >= 0
Shl(a, n) == a * Pow2(n)             \* a << n, below 2^31

\* Array.prototype.slice(start) / TypedArray.prototype.slice(start)
SliceFrom(a, start) ==
  LET s == IF start < 0 THEN Max(Len(a) + start, 0) ELSE Min(start, Len(a))
  IN  [i \in 1..(Len(a) - s) |-> a[s + i]]

Zeros(n) == [i \in 1..n |-> 0]

-----------------------------------------------------------------------------
(* class Galois: GF(256) tables.                                           *)

\* _init(): the first loop stores exp[i] = x and log[x] = i and steps x
\* (doubling, reduced by 0x11d); the second loop fills exp[255..511]
GaloisInit ==
  LET t1 == Loop(LAMBDA t, i :
                   LET x2 == t.x * 2
                   IN  [x   |-> IF BitAnd(x2, 256) # 0 THEN BitXor(x2, 285) ELSE x2,
                        exp |-> [t.exp EXCEPT ![i] = t.x],
                        log |-> [t.log EXCEPT ![t.x] = i]],
                 [x |-> 1, exp |-> [i \in 0..511 |-> 0], log |-> [i \in 0..255 |-> 0]],
                 0, 254)
      e2 == Loop(LAMBDA e, i : [e EXCEPT ![i] = e[i - 255]], t1.exp, 255, 511)
  IN  [exp |-> e2, log |-> [t1.log EXCEPT ![0] = 0]]

mul(a, b) ==
  IF a = 0 \/ b = 0 THEN 0
  ELSE gf.exp[(gf.log[a] + gf.log[b]) % 255]

polyMul(a, b) ==
  Loop(LAMBDA res, i :
         IF a[i + 1] = 0 THEN res
         ELSE Loop(LAMBDA r, j :
                     [r EXCEPT ![i + j + 1] = BitXor(@, mul(a[i + 1], b[j + 1]))],
                   res, 0, Len(b) - 1),
       Zeros(Len(a) + Len(b) - 1), 0, Len(a) - 1)

\* returns the remainder of the polynomial division
polyDiv(dividend, divisor) ==
  LET msg == Loop(LAMBDA ms, i :
                    LET coef == ms[i + 1]
                    IN  IF coef = 0 THEN ms
                        ELSE Loop(LAMBDA r, j :
                                    [r EXCEPT ![i + j + 1] =
                                       BitXor(@, mul(divisor[j + 1], coef))],
                                  ms, 0, Len(divisor) - 1),
                  dividend, 0, Len(dividend) - Len(divisor))
  IN  SliceFrom(msg, Len(dividend) - (Len(divisor) - 1))

-----------------------------------------------------------------------------
(* class ReedSolomon.  generatorCache is a function from the cached        *)
(* degrees to their polynomials.                                           *)

\* returns the polynomial and the cache after the call
generatorPoly(cache, degree) ==
  IF degree \in DOMAIN cache
  THEN [poly |-> cache[degree], cache |-> cache]
  ELSE LET poly == Loop(LAMBDA pl, i : polyMul(pl, <<1, gf.exp[i]>>),
                        <<1>>, 0, degree - 1)
       IN  [poly |-> poly,
            cache |-> [d \in DOMAIN cache \cup {degree} |->
                         IF d = degree THEN poly ELSE cache[d]]]

\* computeEC dividing the data without the ecCount zeros appended
computeECUnpadded(cache, data, ecCount_) ==
  LET g == generatorPoly(cache, ecCount_)
  IN  [ec |-> polyDiv(data, g.poly), cache |-> g.cache]

\* returns the remainder (the EC bytes) and the cache after the call
computeEC(cache, data, ecCount_) ==
  LET g == generatorPoly(cache, ecCount_)
      padded == data \o Zeros(ecCount_)
  IN  [ec |-> polyDiv(padded, g.poly), cache |-> g.cache]

-----------------------------------------------------------------------------
(* JavaScript values that are not always numbers: a number n is Num(n);    *)
(* NaN, undefined, Infinity and the option value 'auto' are tagged values. *)

Num(n) == [t |-> "number", v |-> n]
NaN == [t |-> "NaN", v |-> 0]
undefined == [t |-> "undefined", v |-> 0]
Infinity == [t |-> "Infinity", v |-> 0]
auto == [t |-> "auto", v |-> 0]
IsNum(x) == x.t = "number"

\* while (Cond(acc)) acc = Body(acc), at most n passes; evaluated by halving
\* n, as Loop is.  Once Cond is false the remaining passes are skipped.
RECURSIVE WhileRec(_, _, _, _)
WhileRec(Cond(_), Body(_), acc, n) ==
  IF n <= 0 \/ ~Cond(acc) THEN acc
  ELSE IF n = 1 THEN Body(acc)
  ELSE LET left == WhileRec(Cond, Body, acc, n \div 2)
       IN  IF Len(<<left>>) = 1 THEN WhileRec(Cond, Body, left, n - (n \div 2)) ELSE left

While(Cond(_), Body(_), acc, n) ==
  IF Len(<<acc>>) = 1 THEN WhileRec(Cond, Body, acc, n) ELSE acc

-----------------------------------------------------------------------------
(* class BitBuffer: buffer is the array of bytes, length the bit length.   *)

BitBuffer == [buffer |-> <<>>, length |-> 0]

putBit(bb, bit) ==
  LET bufIndex == Shr(bb.length, 3)
      pushed == IF Len(bb.buffer) <= bufIndex THEN Append(bb.buffer, 0)
                ELSE bb.buffer
      stored == IF bit
                THEN [pushed EXCEPT ![bufIndex + 1] =
                        BitOr(@, Shr(128, BitAnd(bb.length, 7)))]
                ELSE pushed
  IN  [buffer |-> stored, length |-> bb.length + 1]

\* for (i = length - 1; i >= 0; i--) putBit(((num >>> i) & 1) === 1)
put(bb, num, length) ==
  Loop(LAMBDA b, k : putBit(b, BitAnd(Shr(num, length - 1 - k), 1) = 1),
       bb, 0, length - 1)

getBytes(bb) ==
  LET byteCount == (bb.length + 7) \div 8
  IN  SubSeq(bb.buffer, 1, Min(byteCount, Len(bb.buffer)))

\* a length that misses the last byte put
getLengthInBitsStale(bb) == bb.length - 8

getLengthInBits(bb) == bb.length

-----------------------------------------------------------------------------
(* QR tables of src/qrcodegen.js.                                          *)

ECC_LEVELS == {"L", "M", "Q", "H"}

BYTE_CAPACITIES ==
  [L |-> <<
      17, 32, 53, 78, 106, 134, 154, 192, 230, 271, 321, 367, 425, 458,
      520, 586, 644, 718, 792, 858, 929, 1003, 1091, 1171, 1273, 1367,
      1465, 1528, 1628, 1732, 1840, 1952, 2068, 2188, 2303, 2431, 2563,
      2699, 2809>>,
   M |-> <<
      14, 26, 42, 62, 84, 106, 122, 152, 180, 213, 251, 287, 331, 362, 412,
      450, 504, 560, 624, 666, 711, 779, 857, 911, 997, 1059, 1125, 1190,
      1264, 1370, 1452, 1538, 1628, 1722, 1809, 1911, 1989, 2099, 2213, 2331>>,
   Q |-> <<
      11, 20, 32, 46, 60, 74, 86, 108, 130, 151, 177, 203, 241, 258, 292,
      322, 364, 394, 442, 482, 509, 565, 611, 661, 715, 751, 805, 868, 908,
      982, 1030, 1112, 1168, 1228, 1283, 1351, 1423, 1499, 1579, 1663>>,
   H |-> <<
      7, 14, 24, 34, 44, 58, 64, 84, 98, 119, 137, 155, 177, 194, 220, 250,
      280, 310, 338, 382, 403, 439, 461, 511, 535, 593, 625, 658, 698, 742,
      790, 842, 898, 958, 983, 1051, 1093, 1139, 1219, 1273>>]

TOTAL_CODEWORDS == <<
      26, 44, 70, 100, 134, 172, 196, 242, 292, 346, 404, 466, 532, 581,
      655, 733, 815, 901, 991, 1085, 1156, 1258, 1364, 1474, 1588, 1706,
      1828, 1921, 2051, 2185, 2323, 2465, 2611, 2761, 2876, 3034, 3196,
      3362, 3532, 3706>>

\* an array element read: undefined past the end of the array
At(arr, index) ==
  IF index >= 0 /\ index < Len(arr) THEN Num(arr[index + 1]) ELSE undefined

_totalDataBytesForVersion(version_, ecLevel_) ==
  At(BYTE_CAPACITIES[ecLevel_], version_ - 1)

\* total - dataBytes; a number minus undefined is NaN
_ecCodewordsPerBlock(version_, ecLevel_) ==
  LET total == At(TOTAL_CODEWORDS, version_ - 1)
      data == _totalDataBytesForVersion(version_, ecLevel_)
  IN  IF IsNum(total) /\ IsNum(data) THEN Num(total.v - data.v) ELSE NaN

\* the first v in 1..40 with BYTE_CAPACITIES[ecLevel][v-1] >= dataBytes.length
\* (undefined >= n is false); undefined stands for the throw after the loop
_chooseVersion(bytes, ecLevel_) ==
  LET fits == {v \in 1..40 :
                 LET cap == At(BYTE_CAPACITIES[ecLevel_], v - 1)
                 IN  IsNum(cap) /\ cap.v >= Len(bytes)}
  IN  IF fits = {} THEN undefined
      ELSE Num(CHOOSE v \in fits : \A w \in fits : v <= w)

\* the bytes of one UTF-16 code unit outside the surrogate range
Utf8OfUnit(charcode) ==
  IF charcode < 128 THEN <<charcode>>
  ELSE IF charcode < 2048
  THEN <<BitOr(192, Shr(charcode, 6)), BitOr(128, BitAnd(charcode, 63))>>
  ELSE <<BitOr(224, Shr(charcode, 12)),
         BitOr(128, BitAnd(Shr(charcode, 6), 63)),
         BitOr(128, BitAnd(charcode, 63))>>

_utf8Bytes(str) ==
  Loop(LAMBDA utf8, i : utf8 \o Utf8OfUnit(str[i]), <<>>, 1, Len(str))

\* const ccBits = version >= 10 && version <= 26 ? 16 : version >= 27 ? 16 : 8
ccBits(version_) ==
  IF version_ >= 10 /\ version_ <= 26 THEN 16
  ELSE IF version_ >= 27 THEN 16 ELSE 8

padBytes == <<236, 17>>

MaxPasses == 4096

\* lines 411-439 of generate(): the padded data codewords, or the message
\* of the Error thrown
BuildDataCodewords(bytes, version_, ecLevel_) ==
  LET totalDataBytes == _totalDataBytesForVersion(version_, ecLevel_)
      b1 == put(BitBuffer, 4, 4)
      b2 == put(b1, Len(bytes), ccBits(version_))
      b3 == Loop(LAMBDA b, i : put(b, bytes[i], 8), b2, 1, Len(bytes))
      \* totalDataBits and remaining are NaN when totalDataBytes is undefined
      remaining == IF IsNum(totalDataBytes)
                   THEN Num(totalDataBytes.v * 8 - getLengthInBits(b3))
                   ELSE NaN
      \* put(0, Math.min(4, remaining)): no pass when the length is NaN
      b4 == IF IsNum(remaining) THEN put(b3, 0, Min(4, remaining.v)) ELSE b3
      b5 == While(LAMBDA b : getLengthInBits(b) % 8 # 0,
                  LAMBDA b : putBit(b, FALSE), b4, 8)
      \* getBytes().length < undefined is false
      b6 == While(LAMBDA l : IsNum(totalDataBytes)
                             /\ Len(getBytes(l.bitBuf)) < totalDataBytes.v,
                  LAMBDA l : [bitBuf |-> put(l.bitBuf, padBytes[(l.i % 2) + 1], 8),
                              i |-> l.i + 1],
                  [bitBuf |-> b5, i |-> 0], MaxPasses)
  IN  IF IsNum(totalDataBytes) /\ Len(bytes) > totalDataBytes.v
      THEN [err |-> "Data too long for version", dataCodewords |-> <<>>]
      ELSE IF IsNum(remaining) /\ remaining.v < 0
      THEN [err |-> "Not enough capacity after initial encoding",
            dataCodewords |-> <<>>]
      ELSE [err |-> "", dataCodewords |-> getBytes(b6.bitBuf)]

-----------------------------------------------------------------------------
(* class QRMatrix.  A module is null (unset), a boolean (a data module:    *)
(* true = dark) or an object {dark} (a reserved function module).          *)

null == "null"
Bool(dark) == IF dark THEN "true" ELSE "false"
Obj(dark) == IF dark THEN "{dark:true}" ELSE "{dark:false}"
IsObj(v) == v \in {"{dark:true}", "{dark:false}"}      \* typeof v === 'object', v not null

QRMatrix(version_) ==
  LET size == version_ * 4 + 17
  IN  [version |-> version_, size |-> size,
       modules |-> [r \in 0..(size - 1) |-> [c \in 0..(size - 1) |-> null]]]

NoMatrix == [version |-> 0, size |-> 0, modules |-> <<>>]

isEmpty(q, r, c) == q.modules[r][c] = null

inBounds(q, r, c) == r >= 0 /\ r < q.size /\ c >= 0 /\ c < q.size

setModule(q, r, c, dark, reserved) ==
  [q EXCEPT !.modules[r][c] = IF reserved THEN Obj(dark) ELSE Bool(dark)]

FinderPattern ==
  << <<1,1,1,1,1,1,1>>,
     <<1,0,0,0,0,0,1>>,
     <<1,0,1,1,1,0,1>>,
     <<1,0,1,1,1,0,1>>,
     <<1,0,1,1,1,0,1>>,
     <<1,0,0,0,0,0,1>>,
     <<1,1,1,1,1,1,1>> >>

placeFinder(q, r, c) ==
  LET q1 == Loop(LAMBDA a, dr :
                   Loop(LAMBDA b, dc :
                          setModule(b, r + dr, c + dc,
                                    FinderPattern[dr + 1][dc + 1] # 0, TRUE),
                        a, 0, 6),
                 q, 0, 6)
      Sep(a, rr, cc) == IF inBounds(a, rr, cc) THEN setModule(a, rr, cc, FALSE, TRUE)
                        ELSE a
  IN  Loop(LAMBDA a, i :
             Sep(Sep(Sep(Sep(a, r - 1, c + i), r + 7, c + i), r + i, c - 1),
                 r + i, c + 7),
           q1, -1, 7)

placeFindersAndSeparators(q) ==
  placeFinder(placeFinder(placeFinder(q, 0, 0), 0, q.size - 7), q.size - 7, 0)

placeTimingPatterns(q) ==
  Loop(LAMBDA a, i :
         LET v == (i % 2) = 0
             a1 == IF isEmpty(a, 6, i) THEN setModule(a, 6, i, v, TRUE) ELSE a
         IN  IF isEmpty(a1, i, 6) THEN setModule(a1, i, 6, v, TRUE) ELSE a1,
       q, 8, q.size - 9)

CeilDiv(a, b) == (a + b - 1) \div b

alignmentPatternCenters(version_) ==
  IF version_ = 1 THEN <<>>
  ELSE LET posCount == (version_ \div 7) + 2
           size == version_ * 4 + 17
           step == IF posCount = 2 THEN size - 13
                   ELSE CeilDiv(size - 13, posCount - 1)
       IN  <<6>> \o [i \in 1..(posCount - 2) |-> 6 + i * step] \o <<size - 7>>

AlignmentPattern ==
  << <<1,1,1,1,1>>,
     <<1,0,0,0,1>>,
     <<1,0,1,0,1>>,
     <<1,0,0,0,1>>,
     <<1,1,1,1,1>> >>

placeAlignmentAt(q, r, c) ==
  Loop(LAMBDA a, dr :
         Loop(LAMBDA b, dc :
                IF inBounds(b, r + dr, c + dc) /\ isEmpty(b, r + dr, c + dc)
                THEN setModule(b, r + dr, c + dc,
                               AlignmentPattern[dr + 1][dc + 1] # 0, TRUE)
                ELSE b,
              a, 0, 4),
       q, 0, 4)

placeAlignmentPatterns(q) ==
  LET centers == alignmentPatternCenters(q.version)
  IN  Loop(LAMBDA a, ri :
             Loop(LAMBDA b, ci :
                    LET r == centers[ri]
                        c == centers[ci]
                    IN  IF (r = 6 /\ (c = 6 \/ c = b.size - 7))
                           \/ (c = 6 /\ r = b.size - 7)
                        THEN b
                        ELSE placeAlignmentAt(b, r - 2, c - 2),
                  a, 1, Len(centers)),
           q, 1, Len(centers))

\* For versions >= 7 would need version info; omitted in the source
placeVersionInfo(q) == q

reserveFormatAndVersionAreas(q) ==
  LET q1 == Loop(LAMBDA a, i :
                   IF i # 6
                   THEN setModule(setModule(a, 8, i, FALSE, TRUE), i, 8, FALSE, TRUE)
                   ELSE a,
                 q, 0, 8)
  IN  Loop(LAMBDA a, i :
             setModule(setModule(a, 8, a.size - 1 - i, FALSE, TRUE),
                       a.size - 1 - i, 8, FALSE, TRUE),
           q1, 0, 7)

placeFunctionPatterns(q) ==
  reserveFormatAndVersionAreas(
    placeAlignmentPatterns(placeTimingPatterns(placeFindersAndSeparators(q))))

\* one pass of the while loop of placeDataBits: a column pair
PlaceColumnPair(st, dataBits) ==
  LET col == IF st.col = 6 THEN st.col - 1 ELSE st.col
      placed ==
        Loop(LAMBDA a, k :
               LET i == k \div 2
                   cOff == k % 2
                   r == IF st.dirUp THEN a.q.size - 1 - i ELSE i
                   c == col - cOff
               IN  IF isEmpty(a.q, r, c)
                   THEN IF a.bitIndex < Len(dataBits)
                        THEN [q |-> setModule(a.q, r, c, dataBits[a.bitIndex + 1], FALSE),
                              bitIndex |-> a.bitIndex + 1]
                        ELSE [q |-> setModule(a.q, r, c, FALSE, FALSE),
                              bitIndex |-> a.bitIndex]
                   ELSE a,
             [q |-> st.q, bitIndex |-> st.bitIndex], 0, 2 * st.q.size - 1)
  IN  [q |-> placed.q, bitIndex |-> placed.bitIndex,
       col |-> col - 2, dirUp |-> ~st.dirUp]

\* returns the matrix and the value of bitIndex at the end
placeDataBits(q, dataBits) ==
  LET st == While(LAMBDA a : a.col > 0,
                  LAMBDA a : PlaceColumnPair(a, dataBits),
                  [q |-> q, bitIndex |-> 0, col |-> q.size - 1, dirUp |-> TRUE],
                  MaxPasses)
  IN  [q |-> st.q, bitIndex |-> st.bitIndex]

\* the table masks of generate(): masks[k](r, c)
masks(k, r, c) ==
  CASE k = 0 -> ((r + c) % 2) = 0
    [] k = 1 -> (r % 2) = 0
    [] k = 2 -> (c % 3) = 0
    [] k = 3 -> ((r + c) % 3) = 0
    [] k = 4 -> (((r \div 2) + (c \div 3)) % 2) = 0
    [] k = 5 -> (((r * c) % 2) + ((r * c) % 3)) = 0
    [] k = 6 -> ((((r * c) % 2) + ((r * c) % 3)) % 2) = 0
    [] k = 7 -> ((((r + c) % 2) + ((r * c) % 3)) % 2) = 0

\* applyMask without the test for reserved modules
applyMaskAll(q, k) ==
  [q EXCEPT !.modules =
     [r \in 0..(q.size - 1) |-> [c \in 0..(q.size - 1) |->
        LET v == q.modules[r][c]
        IN  IF v = null THEN v
            ELSE IF masks(k, r, c) THEN Bool(~(v \in {"true", "{dark:true}"})) ELSE v]]]

\* applyMask(masks[k]): every module is visited once and decided on its own
applyMask(q, k) ==
  [q EXCEPT !.modules =
     [r \in 0..(q.size - 1) |-> [c \in 0..(q.size - 1) |->
        LET v == q.modules[r][c]
        IN  IF v = null THEN v
            ELSE IF IsObj(v) THEN v
            ELSE IF masks(k, r, c) THEN Bool(~(v = "true")) ELSE v]]]

\* isDark of penaltyScore and the map of toBitArray
isDark(q, r, c) == q.modules[r][c] \in {"true", "{dark:true}"}

toBitArray(q) == [r \in 0..(q.size - 1) |-> [c \in 0..(q.size - 1) |-> isDark(q, r, c)]]

\* rule 1 on one line: line[0..size-1] are the colours along a row or column
RunPenalty(line, size) ==
  LET fin == Loop(LAMBDA a, i :
                    IF line[i] = a.runColor
                    THEN [a EXCEPT !.runLen = @ + 1]
                    ELSE [score |-> IF a.runLen >= 5 THEN a.score + 3 + (a.runLen - 5)
                                    ELSE a.score,
                          runColor |-> line[i], runLen |-> 1],
                  [score |-> 0, runColor |-> line[0], runLen |-> 1], 1, size - 1)
  IN  IF fin.runLen >= 5 THEN fin.score + 3 + (fin.runLen - 5) ELSE fin.score

RECURSIVE SumTo(_, _)
SumTo(f(_), n) == IF n < 0 THEN 0 ELSE f(n) + SumTo(f, n - 1)

\* matchesPattern(arr): arr[0..size-1] holds 1 and 0
matchesPattern(arr, size) ==
  \E i \in 0..(size - 11) :
    LET slice == [j \in 1..11 |-> arr[i + j - 1]]
    IN  slice = <<1,0,1,1,1,0,1,0,0,0,0>> \/ slice = <<0,0,0,0,1,0,1,1,1,0,1>>

\* Math.abs(Math.round((darkCount * 100 / total - 50) / 5)); Math.round(x) is
\* floor(x + 0.5).  total is odd, so x + 0.5 is never an integer and the
\* rounding of the floating-point quotient is the exact one.
BalanceK(darkCount, total) ==
  LET rounded == (200 * darkCount - 95 * total) \div (10 * total)
  IN  IF rounded < 0 THEN -rounded ELSE rounded

\* rule 3 of penaltyScore: 40 for every row and for every column that
\* matchesPattern accepts
patternPenalty(bits, size) ==
  40 * Cardinality({r \in 0..(size - 1) :
                      matchesPattern([c \in 0..(size - 1) |->
                                        IF bits[r][c] THEN 1 ELSE 0], size)})
  + 40 * Cardinality({c \in 0..(size - 1) :
                        matchesPattern([r \in 0..(size - 1) |->
                                          IF bits[r][c] THEN 1 ELSE 0], size)})

penaltyScore(q) ==
  LET size == q.size
      bits == toBitArray(q)
      rule1 == SumTo(LAMBDA r : RunPenalty(bits[r], size), size - 1)
               + SumTo(LAMBDA c : RunPenalty([r \in 0..(size - 1) |-> bits[r][c]], size),
                       size - 1)
      rule2 == 3 * Cardinality({rc \in (0..(size - 2)) \X (0..(size - 2)) :
                                  /\ bits[rc[1]][rc[2]] /\ bits[rc[1]][rc[2] + 1]
                                  /\ bits[rc[1] + 1][rc[2]] /\ bits[rc[1] + 1][rc[2] + 1]})
      rule3 == patternPenalty(bits, size)
      darkCount == Cardinality({rc \in (0..(size - 1)) \X (0..(size - 1)) :
                                  bits[rc[1]][rc[2]]})
  IN  rule1 + rule2 + rule3 + BalanceK(darkCount, size * size) * 10

-----------------------------------------------------------------------------
(* src/unnamed/part_000.  A text is the sequence of its UTF-16 code units; *)
(* a matrix m is a function from the rows y to the functions from the      *)
(* columns x to null, "true" or "false".                                   *)

ALIGNMENT_PATTERN_LOCATIONS == << <<>>, <<6, 18>>, <<6, 22>> >>

getSize(version_) == 17 + version_ * 4

\* "0123456789ABCDEFGHIJKLMNOPQRSTUVWXYZ $%*+-./:"
ALPHANUMERIC_CHARS ==
  <<48, 49, 50, 51, 52, 53, 54, 55, 56, 57,
    65, 66, 67, 68, 69, 70, 71, 72, 73, 74, 75, 76, 77, 78, 79, 80, 81, 82, 83,
    84, 85, 86, 87, 88, 89, 90, 32, 36, 37, 42, 43, 45, 46, 47, 58>>

\* ALPHANUMERIC_CHARS.indexOf(ch), for ch in the string
indexOf(ch) == CHOOSE i \in 0..44 : ALPHANUMERIC_CHARS[i + 1] = ch

\* parseInt(chunk, 10) for a chunk of decimal digits
RECURSIVE parseInt(_)
parseInt(chunk) ==
  IF chunk = <<>> THEN 0
  ELSE 10 * parseInt(SubSeq(chunk, 1, Len(chunk) - 1)) + (chunk[Len(chunk)] - 48)

\* text.substr(i, n)
substr(txt, i, n) == SubSeq(txt, i + 1, Min(i + n, Len(txt)))

encodeSegments(txt) ==
  IF txt # <<>> /\ \A i \in 1..Len(txt) : txt[i] \in 48..57
  THEN [mode |-> 1,
        data |-> Loop(LAMBDA bytes, k :
                        LET chunk == substr(txt, 3 * k, 3)
                            val == parseInt(chunk)
                        IN  IF Len(chunk) = 3
                            THEN bytes \o <<Shr(val, 4), Shl(BitAnd(val, 15), 4)>>
                            ELSE IF Len(chunk) = 2
                            THEN bytes \o <<Shr(val, 2), Shl(BitAnd(val, 3), 6)>>
                            ELSE bytes \o <<val>>,
                      <<>>, 0, ((Len(txt) + 2) \div 3) - 1)]
  ELSE IF txt # <<>>
          /\ \A i \in 1..Len(txt) : \E j \in 1..45 : ALPHANUMERIC_CHARS[j] = txt[i]
  THEN [mode |-> 2,
        data |-> Loop(LAMBDA bytes, k :
                        LET i == 2 * k
                        IN  IF i + 1 < Len(txt)
                            THEN LET val == indexOf(txt[i + 1]) * 45 + indexOf(txt[i + 2])
                                 IN  bytes \o <<Shr(val, 8), BitAnd(val, 255)>>
                            ELSE bytes \o <<indexOf(txt[i + 1])>>,
                      <<>>, 0, ((Len(txt) + 1) \div 2) - 1)]
  ELSE [mode |-> 4, data |-> [i \in 1..Len(txt) |-> BitAnd(txt[i], 255)]]

\* toBitArray(bytes) of part_000: the bits 1 and 0, most significant first
toBitArray0(bytes) ==
  [i \in 1..(8 * Len(bytes)) |->
     BitAnd(Shr(bytes[((i - 1) \div 8) + 1], 7 - ((i - 1) % 8)), 1)]

buildMatrix(version_) ==
  LET size == getSize(version_)
  IN  [y \in 0..(size - 1) |-> [x \in 0..(size - 1) |-> null]]

\* m.length
length(mat) == Cardinality(DOMAIN mat)

\* m[y][x] = dark
Put(mat, y, x, dark) == [mat EXCEPT ![y][x] = Bool(dark)]

drawFinder(mat, x, y) ==
  Loop(LAMBDA a, dy :
         Loop(LAMBDA b, dx :
                Put(b, y + dy, x + dx,
                    dx = 0 \/ dx = 6 \/ dy = 0 \/ dy = 6
                    \/ (dx >= 2 /\ dx <= 4 /\ dy >= 2 /\ dy <= 4)),
              a, 0, 6),
       mat, 0, 6)

drawSeparators(mat) ==
  LET n == length(mat)
  IN  Loop(LAMBDA a, i :
             Put(Put(Put(Put(Put(Put(a, 7, i, FALSE), i, 7, FALSE),
                             n - 8, i, FALSE), n - 1 - i, 7, FALSE),
                     7, n - 1 - i, FALSE), i, n - 8, FALSE),
           mat, 0, 7)

drawTiming(mat) ==
  LET n == length(mat)
  IN  Loop(LAMBDA a, i : Put(Put(a, 6, i, i % 2 = 0), i, 6, i % 2 = 0),
           mat, 8, n - 9)

\* ALIGNMENT_PATTERN_LOCATIONS[version] is read with the version as the
\* index; the caller does not reach here when the entry is undefined
drawAlignment(mat, version_) ==
  LET pos == ALIGNMENT_PATTERN_LOCATIONS[version_ + 1]
      Stamp(a, x, y) ==
        Loop(LAMBDA b, dy :
               Loop(LAMBDA c, dx :
                      LET adx == IF dx < 0 THEN -dx ELSE dx
                          ady == IF dy < 0 THEN -dy ELSE dy
                          dist == Max(adx, ady)
                      IN  Put(c, y + dy, x + dx, dist = 0 \/ dist = 2),
                    b, -2, 2),
             a, -2, 2)
  IN  Loop(LAMBDA a, i :
             Loop(LAMBDA b, j :
                    LET x == pos[i + 1]
                        y == pos[j + 1]
                    IN  IF b[y][x] # null THEN b ELSE Stamp(b, x, y),
                  a, 0, Len(pos) - 1),
           mat, 0, Len(pos) - 1)

reserveFormat(mat) ==
  LET n == length(mat)
      Res(a, y, x) == IF a[y][x] = null THEN Put(a, y, x, FALSE) ELSE a
      m1 == Loop(LAMBDA a, i : Res(a, 8, i), mat, 0, 8)
      m2 == Loop(LAMBDA a, i : Res(a, i, 8), m1, 0, 7)
      m3 == Loop(LAMBDA a, i : Res(a, 8, i), m2, n - 8, n - 1)
  IN  Loop(LAMBDA a, i : Res(a, i, 8), m3, n - 7, n - 1)

drawDark(mat, version_) == Put(mat, 4 * version_ + 9, 8, TRUE)

\* the number of binary digits of n > 0: n.toString(2).length
RECURSIVE BitLength(_)
BitLength(n) == IF n <= 1 THEN 1 ELSE 1 + BitLength(n \div 2)

\* BCH(value, poly): Math.floor(Math.log2(value)) is BitLength(value) - 1
BCH(value, poly) ==
  LET msb == BitLength(poly) - 1
  IN  While(LAMBDA val : Shr(val, msb) >= Shl(1, msb),
            LAMBDA val : BitXor(val, Shl(poly, (BitLength(val) - 1) - msb)),
            Shl(value, msb), MaxPasses)

eclBits(ecl) == CASE ecl = "L" -> 1 [] ecl = "M" -> 0 [] ecl = "Q" -> 3 [] ecl = "H" -> 2

\* the value of the variable bits of drawFormat
formatBits(ecl, mask_) ==
  LET data == BitOr(Shl(eclBits(ecl), 3), mask_)
      rem == BCH(data, 1335)
  IN  BitXor(BitOr(Shl(data, 10), rem), 21522)

drawFormat(mat, ecl, mask_) ==
  LET n == length(mat)
      bits == formatBits(ecl, mask_)
      Bit(i) == BitAnd(Shr(bits, i), 1) # 0
      m1 == Loop(LAMBDA a, i : Put(a, 8, i, Bit(i)), mat, 0, 5)
      m2 == Put(Put(Put(m1, 8, 7, Bit(6)), 8, 8, Bit(7)), 7, 8, Bit(8))
      m3 == Loop(LAMBDA a, i : Put(a, 14 - i, 8, Bit(i)), m2, 9, 14)
      m4 == Loop(LAMBDA a, i : Put(a, n - 1 - i, 8, Bit(i)), m3, 0, 7)
  IN  Loop(LAMBDA a, i : Put(a, 8, n - 1 - i, Bit(i + 8)), m4, 0, 6)

maskFunc(mask_, i, j) ==
  CASE mask_ = 0 -> ((i + j) % 2) = 0
    [] mask_ = 1 -> (i % 2) = 0
    [] mask_ = 2 -> (j % 3) = 0
    [] mask_ = 3 -> ((i + j) % 3) = 0
    [] mask_ = 4 -> (((i \div 2) + (j \div 3)) % 2) = 0
    [] mask_ = 5 -> (((i * j) % 2) + ((i * j) % 3)) = 0
    [] mask_ = 6 -> ((((i * j) % 2) + ((i * j) % 3)) % 2) = 0
    [] mask_ = 7 -> ((((i + j) % 2) + ((i * j) % 3)) % 2) = 0
    [] OTHER -> FALSE

\* one pass of the while loop of placeData: a column pair
PlaceDataPair(st, data, mask_) ==
  LET n == length(st.m)
      x == IF st.x = 6 THEN st.x - 1 ELSE st.x
      placed ==
        Loop(LAMBDA a, k :
               LET i == k \div 2
                   dx == k % 2
                   y == IF st.dirUp THEN n - 1 - i ELSE i
                   xx == x - dx
                   \* data[bitIndex++] || 0
                   bit == IF a.bitIndex < Len(data) THEN data[a.bitIndex + 1] ELSE 0
                   masked == IF maskFunc(mask_, y, xx) THEN bit = 0 ELSE bit # 0
               IN  IF a.m[y][xx] # null THEN a
                   ELSE [m |-> Put(a.m, y, xx, masked), bitIndex |-> a.bitIndex + 1],
             [m |-> st.m, bitIndex |-> st.bitIndex], 0, 2 * n - 1)
  IN  [m |-> placed.m, bitIndex |-> placed.bitIndex, x |-> x - 2, dirUp |-> ~st.dirUp]

placeData(mat, data, mask_) ==
  While(LAMBDA a : a.x > 0,
        LAMBDA a : PlaceDataPair(a, data, mask_),
        [m |-> mat, bitIndex |-> 0, x |-> length(mat) - 1, dirUp |-> TRUE],
        MaxPasses).m

\* the runs of one line: line[0..n-1] are the cells along a row or a column
RunPenalty0(line, n) ==
  LET fin == Loop(LAMBDA a, x :
                    IF line[x] = line[x - 1]
                    THEN [a EXCEPT !.run = @ + 1]
                    ELSE [p |-> IF a.run >= 5 THEN a.p + 3 + (a.run - 5) ELSE a.p,
                          run |-> 1],
                  [p |-> 0, run |-> 1], 1, n - 1)
  IN  IF fin.run >= 5 THEN fin.p + 3 + (fin.run - 5) ELSE fin.p

pat == <<1, 0, 1, 1, 1, 0, 1, 0, 0, 0, 0>>

\* checkLine(arr): 40 for every position where pat begins
checkLine(arr, n) ==
  40 * Cardinality({i \in 0..(n - Len(pat)) :
                      \A j \in 0..(Len(pat) - 1) :
                        (IF arr[i + j] = "true" THEN 1 ELSE 0) = pat[j + 1]})

\* penalty(m) is the number whole + rem / (n * n): p before the last
\* addition is an integer and k * 10 is 100 * |black * 2 - total| / total
\* the additions of checkLine over the rows and the columns of m
linePenalty(mat, n) ==
  SumTo(LAMBDA y : checkLine(mat[y], n), n - 1)
  + SumTo(LAMBDA x : checkLine([y \in 0..(n - 1) |-> mat[y][x]], n), n - 1)

penalty(mat) ==
  LET n == length(mat)
      Dark(y, x) == IF mat[y][x] = "true" THEN 1 ELSE 0
      runs == SumTo(LAMBDA y : RunPenalty0(mat[y], n), n - 1)
              + SumTo(LAMBDA x : RunPenalty0([y \in 0..(n - 1) |-> mat[y][x]], n), n - 1)
      blocks == 3 * Cardinality({yx \in (0..(n - 2)) \X (0..(n - 2)) :
                   LET sum == Dark(yx[1], yx[2]) + Dark(yx[1], yx[2] + 1)
                              + Dark(yx[1] + 1, yx[2]) + Dark(yx[1] + 1, yx[2] + 1)
                   IN  sum = 0 \/ sum = 4})
      lines == linePenalty(mat, n)
      black == Cardinality({yx \in (0..(n - 1)) \X (0..(n - 1)) : mat[yx[1]][yx[2]] = "true"})
      total == n * n
      diff == black * 20 - total * 10
      tenK == 10 * (IF diff < 0 THEN -diff ELSE diff)
  IN  [whole |-> runs + blocks + lines + (tenK \div total), rem |-> tenK % total]

\* a < b for two such numbers over the same n * n
lessThan(a, b) == a.whole < b.whole \/ (a.whole = b.whole /\ a.rem < b.rem)

-----------------------------------------------------------------------------
(* class QRCode: generate(), one action per stage of the method.           *)

\* the largest version whose symbol is built module by module
MaxMatrixVersion == 2

\* "HELLO WORLD", "", "BB", "é"
LiteTexts ==
  { <<72, 69, 76, 76, 79, 32, 87, 79, 82, 76, 68>>, <<>>, <<66, 66>>, <<233>> }

idleLite ==
  /\ text = <<>> /\ optVersion = auto /\ optMask = auto /\ ecLevel = "M"
  /\ pc = "idle" /\ err = "" /\ dataBytes = <<>> /\ version = 0 /\ dataCodewords = <<>>
  /\ ecCount = undefined /\ finalBits = <<>> /\ matrix = NoMatrix /\ bitIndex = 0
  /\ m = 0 /\ bestMask = 0 /\ bestScore = Infinity /\ bestModules = NoMatrix
  /\ mask = 0

idleRS ==
  /\ rsPc = "idle" /\ rsData = <<>> /\ rsN = 0 /\ rsEC = <<>> /\ rsRem = <<>>

idleP0 ==
  /\ text0 = <<>> /\ version0 = 0 /\ ecl0 = "" /\ v0 = 0 /\ pc0 = "idle" /\ err0 = ""
  /\ m0 = <<>> /\ bits0 = <<>> /\ mask0 = 0 /\ bestMask0 = 0
  /\ bestScore0 = [whole |-> 0, rem |-> 0] /\ bestM0 = <<>>

\* new QRCode(text, options): the state before generate() runs
NewQRCode ==
  /\ pc = "start" /\ err = "" /\ dataBytes = <<>> /\ version = 0
  /\ dataCodewords = <<>> /\ ecCount = undefined /\ finalBits = <<>>
  /\ matrix = NoMatrix /\ bitIndex = 0 /\ m = 0 /\ bestMask = 0
  /\ bestScore = Infinity /\ bestModules = NoMatrix /\ mask = 0
  /\ generatorCache = <<>>

InitLite ==
  /\ prog = "lite"
  /\ gf = GaloisInit
  /\ text \in LiteTexts
  /\ optVersion \in {auto} \cup {Num(v) : v \in 1..MaxMatrixVersion}
  /\ optMask \in {auto} \cup {Num(k) : k \in 0..7}
  /\ ecLevel \in ECC_LEVELS
  /\ NewQRCode
  /\ idleRS
  /\ idleP0

Throw(msg) ==
  /\ err' = msg
  /\ pc' = "threw"

\* lines 401-409: the UTF-8 bytes and the version
SelectVersion ==
  /\ prog = "lite" /\ pc = "start"
  /\ dataBytes' = _utf8Bytes(text)
  /\ LET chosen == IF optVersion = auto THEN _chooseVersion(dataBytes', ecLevel)
                   ELSE optVersion
     IN  IF ~IsNum(chosen)
         THEN Throw("Data too long for any QR version") /\ UNCHANGED version
         ELSE IF ~(chosen.v >= 1 /\ chosen.v <= 40)
         THEN Throw("Invalid version chosen") /\ UNCHANGED version
         ELSE version' = chosen.v /\ pc' = "versioned" /\ UNCHANGED err
  /\ UNCHANGED <<prog, gf, generatorCache, rsv, p0v, text, optVersion, optMask, ecLevel,
                 dataCodewords, ecCount, finalBits, matrix, bitIndex, m, bestMask,
                 bestScore, bestModules, mask>>

\* lines 411-439: the padded data codewords
BuildCodewords ==
  /\ prog = "lite" /\ pc = "versioned"
  /\ LET r == BuildDataCodewords(dataBytes, version, ecLevel)
     IN  IF r.err # ""
         THEN Throw(r.err) /\ UNCHANGED dataCodewords
         ELSE dataCodewords' = r.dataCodewords /\ pc' = "encoded" /\ UNCHANGED err
  /\ UNCHANGED <<prog, gf, generatorCache, rsv, p0v, text, optVersion, optMask, ecLevel,
                 dataBytes, version, ecCount, finalBits, matrix, bitIndex, m,
                 bestMask, bestScore, bestModules, mask>>

\* line 445
EcCount ==
  /\ prog = "lite" /\ pc = "encoded"
  /\ ecCount' = _ecCodewordsPerBlock(version, ecLevel)
  /\ pc' = "eccount"
  /\ UNCHANGED <<prog, gf, generatorCache, rsv, p0v, text, optVersion, optMask, ecLevel,
                 err, dataBytes, version, dataCodewords, finalBits, matrix, bitIndex,
                 m, bestMask, bestScore, bestModules, mask>>

\* for (let b of finalBytes) for (bit = 7; bit >= 0; bit--) finalBits.push(...)
BitsOfBytes(bytes) ==
  [i \in 1..(8 * Len(bytes)) |->
     BitAnd(Shr(bytes[((i - 1) \div 8) + 1], 7 - ((i - 1) % 8)), 1) = 1]

\* the symbol is built for versions up to MaxMatrixVersion; the throw of
\* computeEC on a NaN count is taken at every version
EcInBounds == version <= MaxMatrixVersion \/ ~IsNum(ecCount)

\* lines 446-457: the EC bytes, the final byte sequence and its bits.  With
\* ecCount NaN, new Uint8Array(NaN) has length 0 and padded.set(dataBytes, 0)
\* throws a RangeError, dataBytes being non-empty.
EncodeFinalBits ==
  /\ prog = "lite" /\ pc = "eccount"
  /\ IF ~IsNum(ecCount)
     THEN IF Len(dataCodewords) > 0
          THEN Throw("RangeError: offset is out of bounds")
               /\ UNCHANGED <<finalBits, generatorCache>>
          ELSE finalBits' = <<>> /\ pc' = "ec" /\ UNCHANGED <<err, generatorCache>>
     ELSE LET r == computeEC(generatorCache, dataCodewords, ecCount.v)
          IN  /\ finalBits' = BitsOfBytes(dataCodewords \o r.ec)
              /\ generatorCache' = r.cache
              /\ pc' = "ec"
              /\ UNCHANGED err
  /\ UNCHANGED <<prog, gf, rsv, p0v, text, optVersion, optMask, ecLevel, dataBytes,
                 version, dataCodewords, ecCount, matrix, bitIndex, m, bestMask,
                 bestScore, bestModules, mask>>

\* the same step, taken where the symbol is built
ComputeEC ==
  /\ EcInBounds
  /\ EncodeFinalBits

\* lines 460-465: the matrix with its function patterns and the data bits
BuildMatrix ==
  /\ prog = "lite" /\ pc = "ec"
  /\ LET p == placeDataBits(placeFunctionPatterns(QRMatrix(version)), finalBits)
     IN  /\ matrix' = p.q
         /\ bitIndex' = p.bitIndex
  /\ bestMask' = 0 /\ bestScore' = Infinity /\ bestModules' = NoMatrix
  /\ m' = 0
  /\ pc' = "mask"
  /\ UNCHANGED <<prog, gf, generatorCache, rsv, p0v, text, optVersion, optMask, ecLevel,
                 err, dataBytes, version, dataCodewords, ecCount, finalBits, mask>>

\* score <= bestScore
notGreaterThanBest(score, best) == ~IsNum(best) \/ score <= best.v

\* score < bestScore, bestScore being Infinity or a number
lessThanBest(score, best) == ~IsNum(best) \/ score < best.v

\* lines 477-494: one pass of the mask loop
TryMask ==
  /\ prog = "lite" /\ pc = "mask" /\ m < 8
  /\ LET tryAuto == optMask = auto
         tmp == applyMask(matrix, m)
         score == penaltyScore(tmp)
         better == lessThanBest(score, bestScore)
     IN  /\ IF better
            THEN bestScore' = Num(score) /\ bestMask' = m /\ bestModules' = tmp
            ELSE UNCHANGED <<bestScore, bestMask, bestModules>>
         /\ IF ~tryAuto /\ optMask # auto
            THEN pc' = "chosen" /\ UNCHANGED m
            ELSE m' = m + 1 /\ pc' = IF m + 1 < 8 THEN "mask" ELSE "chosen"
  /\ UNCHANGED <<prog, gf, generatorCache, rsv, p0v, text, optVersion, optMask, ecLevel,
                 err, dataBytes, version, dataCodewords, ecCount, finalBits, matrix,
                 bitIndex, mask>>

\* lines 495-501
Finish ==
  /\ prog = "lite" /\ pc = "chosen"
  /\ mask' = IF optMask = auto THEN bestMask ELSE optMask.v
  /\ matrix' = IF bestModules # NoMatrix THEN bestModules ELSE matrix
  /\ pc' = "done"
  /\ UNCHANGED <<prog, gf, generatorCache, rsv, p0v, text, optVersion, optMask, ecLevel,
                 err, dataBytes, version, dataCodewords, ecCount, finalBits,
                 bitIndex, m, bestMask, bestScore, bestModules>>

Generate ==
  \/ SelectVersion
  \/ BuildCodewords
  \/ EcCount
  \/ ComputeEC
  \/ BuildMatrix
  \/ TryMask
  \/ Finish

-----------------------------------------------------------------------------
(* src/unnamed/part_000: QRCode.generate(text, version, ecl), lines        *)
(* 309-319, and encode(text, v, ecl), lines 271-294.                       *)

\* the version argument is omitted (0) or one of 2..MaxVersionArg0
MaxVersionArg0 == 3

\* the last version generate tries
MAX_VERSION == 40

\* "HELLO WORLD HELLO WORLD" (alphanumeric), "12345" (numeric) and
\* "BQsCaD9Tq0R24oGgL" (byte mode)
Texts0 ==
  { <<72, 69, 76, 76, 79, 32, 87, 79, 82, 76, 68, 32, 72, 69, 76, 76, 79, 32, 87, 79, 82, 76, 68>>,
    <<49, 50, 51, 52, 53>>,
    <<66, 81, 115, 67, 97, 68, 57, 84, 113, 48, 82, 50, 52, 111, 71, 103, 76>> }

\* bestScore = 1e9
InitialBestScore0 == [whole |-> 1000000000, rem |-> 0]

InitP0 ==
  /\ prog = "part_000"
  /\ gf = GaloisInit
  /\ idleLite
  /\ idleRS
  /\ generatorCache = <<>>
  /\ text0 \in Texts0
  /\ version0 \in {0} \cup (2..MaxVersionArg0)
  /\ ecl0 \in {""} \cup ECC_LEVELS
  /\ v0 = 0 /\ pc0 = "start" /\ err0 = ""
  /\ m0 = <<>> /\ bits0 = <<>> /\ mask0 = 0 /\ bestMask0 = 0
  /\ bestScore0 = InitialBestScore0 /\ bestM0 = <<>>

\* ecl = ecl || "M"; let v = version || 1
Start0 ==
  /\ prog = "part_000" /\ pc0 = "start"
  /\ ecl0' = IF ecl0 = "" THEN "M" ELSE ecl0
  /\ v0' = IF version0 = 0 THEN 1 ELSE version0
  /\ pc0' = "try"
  /\ UNCHANGED <<prog, lite, gf, generatorCache, rsv, text0, version0, err0, m0,
                 bits0, mask0, bestMask0, bestScore0, bestM0>>

\* try { return encode(text, v, ecl) } catch (e) { continue }: encode up to
\* the mask loop.  drawAlignment reads pos.length of an undefined entry for
\* v >= 3; the TypeError is caught and the next version is tried.
Encode0 ==
  /\ prog = "part_000" /\ pc0 = "try" /\ v0 <= MAX_VERSION
  /\ IF v0 + 1 \in DOMAIN ALIGNMENT_PATTERN_LOCATIONS
     THEN LET seg == encodeSegments(text0)
              b0 == buildMatrix(v0)
              b1 == drawFinder(b0, 0, 0)
              b2 == drawFinder(b1, length(b1) - 7, 0)
              b3 == drawFinder(b2, 0, length(b2) - 7)
              b4 == drawAlignment(drawTiming(drawSeparators(b3)), v0)
          IN  /\ m0' = drawDark(reserveFormat(b4), v0)
              /\ bits0' = toBitArray0(seg.data)
              /\ bestMask0' = 0 /\ bestScore0' = InitialBestScore0 /\ bestM0' = <<>>
              /\ mask0' = 0
              /\ pc0' = "mask"
              /\ UNCHANGED v0
     ELSE /\ v0' = v0 + 1
          /\ UNCHANGED <<pc0, m0, bits0, mask0, bestMask0, bestScore0, bestM0>>
  /\ UNCHANGED <<prog, lite, gf, generatorCache, rsv, text0, version0, ecl0, err0>>

\* one pass of the mask loop of encode, lines 286-292
TryMask0 ==
  /\ prog = "part_000" /\ pc0 = "mask" /\ mask0 < 8
  /\ LET testM == drawFormat(placeData(m0, bits0, mask0), ecl0, mask0)
         score == penalty(testM)
     IN  IF lessThan(score, bestScore0)
         THEN bestScore0' = score /\ bestMask0' = mask0 /\ bestM0' = testM
         ELSE UNCHANGED <<bestScore0, bestMask0, bestM0>>
  /\ mask0' = mask0 + 1
  /\ UNCHANGED <<prog, lite, gf, generatorCache, rsv, text0, version0, ecl0, v0,
                 pc0, err0, m0, bits0>>

\* return bestM
Return0 ==
  /\ prog = "part_000" /\ pc0 = "mask" /\ mask0 = 8
  /\ pc0' = "done"
  /\ UNCHANGED <<prog, lite, gf, generatorCache, rsv, text0, version0, ecl0, v0,
                 err0, m0, bits0, mask0, bestMask0, bestScore0, bestM0>>

\* the loop over the versions ran out
Fail0 ==
  /\ prog = "part_000" /\ pc0 = "try" /\ v0 > MAX_VERSION
  /\ err0' = "Data too long to encode in QR code"
  /\ pc0' = "threw"
  /\ UNCHANGED <<prog, lite, gf, generatorCache, rsv, text0, version0, ecl0, v0,
                 m0, bits0, mask0, bestMask0, bestScore0, bestM0>>

Generate0 == Start0 \/ Encode0 \/ TryMask0 \/ Return0 \/ Fail0

-----------------------------------------------------------------------------
(* Reed-Solomon on its own: one ReedSolomon instance computes the EC bytes *)
(* of a data block, then the block followed by its EC bytes is divided by  *)
(* the generator with Galois.polyDiv.                                      *)

MaxBlockLen == 3
MaxEcCount == 3
RsBytes == {0, 1, 29, 255}

RsBlocks == UNION {[1..n -> RsBytes] : n \in 0..MaxBlockLen}

InitRS ==
  /\ prog = "rs"
  /\ gf = GaloisInit
  /\ idleLite
  /\ idleP0
  /\ generatorCache = <<>>
  /\ rsPc = "start"
  /\ rsData \in RsBlocks
  /\ rsN \in 1..MaxEcCount
  /\ rsEC = <<>>
  /\ rsRem = <<>>

\* rs.computeEC(dataBytes, ecCount)
RsComputeEC ==
  /\ prog = "rs" /\ rsPc = "start"
  /\ LET r == computeEC(generatorCache, rsData, rsN)
     IN  /\ rsEC' = r.ec
         /\ generatorCache' = r.cache
  /\ rsPc' = "ec"
  /\ UNCHANGED <<prog, lite, gf, p0v, rsData, rsN, rsRem>>

\* gf.polyDiv(data followed by EC, rs.generatorPoly(ecCount))
RsDivide ==
  /\ prog = "rs" /\ rsPc = "ec"
  /\ LET g == generatorPoly(generatorCache, rsN)
     IN  /\ rsRem' = polyDiv(rsData \o rsEC, g.poly)
         /\ generatorCache' = g.cache
  /\ rsPc' = "divided"
  /\ UNCHANGED <<prog, lite, gf, p0v, rsData, rsN, rsEC>>

NextRS == RsComputeEC \/ RsDivide

SpecRS == InitRS /\ [][NextRS]_vars

\* C3: once the data block followed by its EC bytes has been divided by the
\* generator of the same degree, the remainder has exactly ecCount bytes and
\* every one of them is zero.
C3_RoundTripZero ==
  rsPc = "divided" =>
    /\ Len(rsRem) = rsN
    /\ \A i \in 1..Len(rsRem) : rsRem[i] = 0

\* a full-length block with non-zero EC bytes has been divided
C3_Witness ==
  /\ rsPc = "divided"
  /\ Len(rsData) = MaxBlockLen
  /\ rsN = MaxEcCount
  /\ \A i \in 1..Len(rsEC) : rsEC[i] # 0
  /\ Len(rsRem) = rsN

\* payload lengths from the capacity down to CapSlack below it are tried at
\* the versions up to MaxCapVersion
CapSlack == 3
MaxCapVersion == 12

\* a payload of n bytes: n times "A"
Payload(n) == [i \in 1..n |-> 65]

\* the last two rows of the tables
HighVersions == {39, 40}

\* At the versions w up to MaxCapVersion and at the HighVersions, for every
\* level: the payload one byte longer than the table capacity, with the
\* version on auto and pinned to w, and a one-byte payload with the version
\* pinned to w.  At the versions up to MaxCapVersion also the payloads of the
\* capacity and up to CapSlack bytes less.
InitCap ==
  /\ prog = "lite"
  /\ gf = GaloisInit
  /\ ecLevel \in ECC_LEVELS
  /\ \E w \in (1..MaxCapVersion) \cup HighVersions :
       \/ /\ IsNum(_totalDataBytesForVersion(w, ecLevel))
          /\ text = Payload(_totalDataBytesForVersion(w, ecLevel).v + 1)
          /\ optVersion \in {auto, Num(w)}
       \/ /\ text = Payload(1)
          /\ optVersion = Num(w)
       \/ /\ w <= MaxCapVersion
          /\ IsNum(_totalDataBytesForVersion(w, ecLevel))
          /\ \E d \in 0..CapSlack :
               text = Payload(_totalDataBytesForVersion(w, ecLevel).v - d)
          /\ optVersion \in {auto, Num(w)}
  /\ optMask = auto
  /\ NewQRCode
  /\ idleRS
  /\ idleP0

SpecCap == InitCap /\ [][Generate]_vars

\* the largest version whose codeword sequence is computed without the symbol
MaxBlockVersion == 5

\* pinned versions 1..MaxBlockVersion, every level: generate() up to the bits
\* handed to placeDataBits
InitBlk ==
  /\ prog = "lite"
  /\ gf = GaloisInit
  /\ text \in LiteTexts
  /\ optVersion \in {Num(v) : v \in 1..MaxBlockVersion}
  /\ optMask = auto
  /\ ecLevel \in ECC_LEVELS
  /\ NewQRCode
  /\ idleRS
  /\ idleP0

NextBlk == SelectVersion \/ BuildCodewords \/ EcCount \/ EncodeFinalBits

SpecBlk == InitBlk /\ [][NextBlk]_vars

\* the largest version of the symbols with version information
MaxInfoVersion == 7

\* pinned versions 7..MaxInfoVersion, mask on auto or pinned to 0
InitInfo ==
  /\ prog = "lite"
  /\ gf = GaloisInit
  /\ text \in LiteTexts
  /\ optVersion \in {Num(v) : v \in 7..MaxInfoVersion}
  /\ optMask \in {auto, Num(0)}
  /\ ecLevel \in ECC_LEVELS
  /\ NewQRCode
  /\ idleRS
  /\ idleP0

NextInfo ==
  \/ SelectVersion
  \/ BuildCodewords
  \/ EcCount
  \/ EncodeFinalBits
  \/ BuildMatrix
  \/ TryMask
  \/ Finish

SpecInfo == InitInfo /\ [][NextInfo]_vars

\* the largest version whose matrix placeDataBits is run on directly
MaxZigVersion == 40

\* the bits handed to placeDataBits on a matrix of size n: none, or more than
\* the matrix holds
ZigBits(n) == { <<>>, <<>> \o [i \in 1..(n * n) |-> ((i * i) % 7) < 3] }

\* m = new QRMatrix(v); m.placeFunctionPatterns(); m.placeDataBits(bits): the
\* state before the call, together with the runs of part_000
InitZig ==
  \/ /\ prog = "lite"
     /\ gf = GaloisInit
     /\ text = <<>> /\ optMask = auto /\ ecLevel = "M"
     /\ version \in 1..MaxZigVersion
     /\ optVersion = Num(version)
     /\ finalBits \in ZigBits(version * 4 + 17)
     /\ pc = "ec" /\ err = "" /\ dataBytes = <<>> /\ dataCodewords = <<>>
     /\ ecCount = undefined /\ matrix = NoMatrix /\ bitIndex = 0 /\ m = 0
     /\ bestMask = 0 /\ bestScore = Infinity /\ bestModules = NoMatrix /\ mask = 0
     /\ generatorCache = <<>>
     /\ idleRS
     /\ idleP0
  \/ InitP0

NextZig == BuildMatrix \/ Generate0

SpecZig == InitZig /\ [][NextZig]_vars

Init == InitLite \/ InitP0

Next == Generate \/ Generate0

Spec == Init /\ [][Next]_vars

-----------------------------------------------------------------------------
(* Version choice and capacity (QRCode.generate, lines 400-445).           *)

PastEncoded == {"encoded", "eccount", "ec", "mask", "chosen", "done"}

\* C1: whenever _chooseVersion (options.version = 'auto') has returned a
\* version for the payload, generate does not throw: the version has room for
\* the mode indicator, the character count and the payload.
C1_ChosenVersionHasRoom ==
  (prog = "lite" /\ optVersion = auto /\ version # 0) => pc # "threw"

\* C2: once generate has built the padded data codewords of a run that does
\* not throw (line 446 throws when the EC count is NaN), their number is
\* exactly _totalDataBytesForVersion(version, ecLevel).
C2_PaddedLength ==
  (/\ prog = "lite"
   /\ pc \in PastEncoded
   /\ IsNum(_ecCodewordsPerBlock(version, ecLevel)))
  => /\ IsNum(_totalDataBytesForVersion(version, ecLevel))
     /\ Len(dataCodewords) = _totalDataBytesForVersion(version, ecLevel).v

\* a finished symbol whose codewords end in the pad bytes 0xEC, 0x11, and one
\* whose payload leaves room for the terminator only
C2_Witness ==
  /\ prog = "lite" /\ pc = "done"
  /\ Len(dataBytes) = 1
  /\ Len(dataCodewords) = _totalDataBytesForVersion(version, ecLevel).v
  /\ Len(dataCodewords) > 4
  /\ dataCodewords[Len(dataCodewords) - 1] = 236
  /\ dataCodewords[Len(dataCodewords)] = 17

\* C9: a payload one byte longer than the capacity of a version w in 1..39
\* is refused with a data-too-long error when the version is pinned to w, and
\* with the version on auto it is encoded at version w + 1.
C9_CapacityBoundary ==
  \A w \in 1..39 :
    (/\ prog = "lite" /\ pc # "start"
     /\ IsNum(_totalDataBytesForVersion(w, ecLevel))
     /\ Len(dataBytes) = _totalDataBytesForVersion(w, ecLevel).v + 1)
    => /\ optVersion = Num(w) =>
            /\ pc \in {"versioned", "threw"}
            /\ pc = "threw" => err = "Data too long for version"
       /\ optVersion = auto =>
            /\ pc # "threw"
            /\ version = w + 1

\* C10: for the version and level of a run, the data capacity and the EC
\* count that generate reads from the tables are positive integers whose sum
\* is TOTAL_CODEWORDS[version - 1].
C10_TablesConsistent ==
  (prog = "lite" /\ pc = "eccount")
  => /\ IsNum(_totalDataBytesForVersion(version, ecLevel))
     /\ _totalDataBytesForVersion(version, ecLevel).v > 0
     /\ IsNum(ecCount)
     /\ ecCount.v > 0
     /\ _totalDataBytesForVersion(version, ecLevel).v + ecCount.v
          = TOTAL_CODEWORDS[version]

-----------------------------------------------------------------------------
(* The matrix of src/qrcodegen.js: reserved modules, masks, format word.   *)

\* the matrix of the run before any mask: function patterns and data bits
Unmasked == placeDataBits(placeFunctionPatterns(QRMatrix(version)), finalBits).q

\* C4: every module that placeFunctionPatterns stamps as reserved is the
\* same reserved value after placeDataBits, after applyMask with each of the
\* 8 masks and in the returned symbol, and placeDataBits spends its bits on
\* the other modules only: one bit per unreserved module until the bits or
\* the modules run out.
C4_ReservedPreserved ==
  (prog = "lite" /\ pc \in {"mask", "chosen", "done"}) =>
    LET f == placeFunctionPatterns(QRMatrix(version))
        cells == (0..(f.size - 1)) \X (0..(f.size - 1))
        reservedCells == {rc \in cells : IsObj(f.modules[rc[1]][rc[2]])}
    IN  /\ \A rc \in reservedCells :
             /\ matrix.modules[rc[1]][rc[2]] = f.modules[rc[1]][rc[2]]
             /\ bestModules # NoMatrix =>
                  bestModules.modules[rc[1]][rc[2]] = f.modules[rc[1]][rc[2]]
             /\ (pc = "mask" /\ m = 0) =>
                  \A k \in 0..7 :
                    applyMask(matrix, k).modules[rc[1]][rc[2]] = f.modules[rc[1]][rc[2]]
        /\ \A rc \in cells \ reservedCells :
             matrix.modules[rc[1]][rc[2]] \in {"true", "false"}
        /\ bitIndex = Min(Len(finalBits), Cardinality(cells \ reservedCells))

\* a returned symbol whose chosen mask flips the position of a dark reserved
\* module, all the data bits having been placed
C4_Witness ==
  /\ prog = "lite" /\ pc = "done" /\ optMask = auto
  /\ bitIndex = Len(finalBits) /\ bitIndex > 0
  /\ \E r, c \in 0..(matrix.size - 1) :
       matrix.modules[r][c] = "{dark:true}" /\ masks(mask, r, c)

\* x mod poly over GF(2)
Gf2Mod(x, poly) ==
  While(LAMBDA val : BitLength(val) >= BitLength(poly) /\ val # 0,
        LAMBDA val : BitXor(val, Shl(poly, BitLength(val) - BitLength(poly))),
        x, MaxPasses)

\* the 15-bit format word of a level and a mask: 2 level bits and 3 mask
\* bits, the 10-bit remainder modulo 0x537, the whole XORed with 0x5412
FormatWord(ecl, k) ==
  LET data == BitOr(Shl(eclBits(ecl), 3), k)
  IN  BitXor(BitOr(Shl(data, 10), Gf2Mod(Shl(data, 10), 1335)), 21522)

\* row and column of bit i in the location around the top-left finder and in
\* the location split between the other two finders of a symbol of n rows
FormatCell1(i) ==
  IF i <= 5 THEN <<8, i>>
  ELSE IF i = 6 THEN <<8, 7>>
  ELSE IF i = 7 THEN <<8, 8>>
  ELSE IF i = 8 THEN <<7, 8>>
  ELSE <<14 - i, 8>>

FormatCell2(i, n) == IF i <= 7 THEN <<n - 1 - i, 8>> ELSE <<8, n + 7 - i>>

\* C5: in the returned symbol both format locations hold the format word of
\* the level and of the mask that was applied to the data modules.
C5_FormatWordWritten ==
  (prog = "lite" /\ pc = "done") =>
    \A i \in 0..14 :
      LET bit == BitAnd(Shr(FormatWord(ecLevel, bestMask), i), 1) = 1
          c1 == FormatCell1(i)
          c2 == FormatCell2(i, matrix.size)
      IN  /\ isDark(matrix, c1[1], c1[2]) = bit
          /\ isDark(matrix, c2[1], c2[2]) = bit

\* C8: with options.mask an integer k the returned symbol is the unmasked
\* matrix with mask formula k applied, and the reported mask is k.
C8_PinnedMaskApplied ==
  (prog = "lite" /\ pc = "done" /\ optMask # auto) =>
    /\ mask = optMask.v
    /\ matrix = applyMask(Unmasked, optMask.v)

-----------------------------------------------------------------------------
(* Format word and mask choice of src/unnamed/part_000; mask choice of     *)
(* src/qrcodegen.js.                                                       *)

\* the 15-bit word read from the location around the top-left finder
ReadFormat1(mat) ==
  LET c(i) == FormatCell1(i)
  IN  SumTo(LAMBDA i : IF mat[c(i)[1]][c(i)[2]] = "true" THEN Pow2(i) ELSE 0, 14)

\* the 15-bit word read from the location split between the other finders
ReadFormat2(mat) ==
  LET c(i) == FormatCell2(i, length(mat))
  IN  SumTo(LAMBDA i : IF mat[c(i)[1]][c(i)[2]] = "true" THEN Pow2(i) ELSE 0, 14)

\* C6: the word drawFormat wrote into the best matrix so far, with the XOR
\* mask 0x5412 removed, has the level and mask bits on top, the remainder
\* BCH(data, 0x537) in its low 10 bits, and is divisible by 0x537 over GF(2).
C6_FormatIsBchCodeword ==
  (prog = "part_000" /\ bestM0 # <<>>) =>
    LET data == BitOr(Shl(eclBits(ecl0), 3), bestMask0)
        word == BitXor(ReadFormat1(bestM0), 21522)
    IN  /\ ReadFormat2(bestM0) = ReadFormat1(bestM0)
        /\ Shr(word, 10) = data
        /\ word % 1024 = BCH(data, 1335)
        /\ Gf2Mod(word, 1335) = 0

\* the scores of the 8 candidates of a run of src/qrcodegen.js
LiteScores == [k \in 0..7 |-> penaltyScore(applyMask(Unmasked, k))]

\* the 8 candidates of a run of part_000 and their scores
Candidates0 == [k \in 0..7 |-> drawFormat(placeData(m0, bits0, k), ecl0, k)]
Scores0 == [k \in 0..7 |-> penalty(Candidates0[k])]

\* C7: with the mask on auto the returned candidate has the least of the 8
\* penalty scores, and among the candidates with that score the lowest
\* index; in src/qrcodegen.js and in part_000.
C7_AutoPicksMinimum ==
  /\ (prog = "lite" /\ pc = "done" /\ optMask = auto) =>
       LET scores == LiteScores
       IN  /\ mask = bestMask
           /\ matrix = applyMask(Unmasked, mask)
           /\ bestScore = Num(scores[mask])
           /\ \A k \in 0..7 :
                /\ scores[mask] <= scores[k]
                /\ scores[k] = scores[mask] => mask <= k
  /\ (prog = "part_000" /\ pc0 = "done") =>
       LET cands == Candidates0
           scores == [k \in 0..7 |-> penalty(cands[k])]
       IN  /\ bestM0 = cands[bestMask0]
           /\ bestScore0 = scores[bestMask0]
           /\ \A k \in 0..7 :
                /\ ~lessThan(scores[k], scores[bestMask0])
                /\ scores[k] = scores[bestMask0] => bestMask0 <= k

\* a matrix returned by part_000 whose least score is shared with a
\* candidate of a higher index
C7_Witness ==
  /\ prog = "part_000" /\ pc0 = "done"
  /\ \E k \in 0..7 : k > bestMask0 /\ Scores0[k] = bestScore0

-----------------------------------------------------------------------------
(* Block structure of the codeword sequence.                               *)

\* number of error-correction blocks (group 1 + group 2) of ISO/IEC 18004
\* for versions 1..6, index version
NUM_BLOCKS ==
  [L |-> <<1, 1, 1, 1, 1, 2>>,
   M |-> <<1, 1, 1, 2, 2, 4>>,
   Q |-> <<1, 1, 2, 2, 4, 4>>,
   H |-> <<1, 1, 2, 4, 4, 4>>]

\* data length of block b (1-based) of nb when n codewords are split into
\* group-1 blocks of floor(n / nb) and then group-2 blocks one longer
BlockLen(n, nb, b) == (n \div nb) + (IF b > nb - (n % nb) THEN 1 ELSE 0)

\* offset of block b in the sequence
BlockStart(n, nb, b) ==
  (b - 1) * (n \div nb) + Max(0, (b - 1) - (nb - (n % nb)))

\* the sequential split of data into nb blocks
SplitBlocks(data, nb) ==
  [b \in 1..nb |->
     SubSeq(data, BlockStart(Len(data), nb, b) + 1,
            BlockStart(Len(data), nb, b) + BlockLen(Len(data), nb, b))]

\* column-wise interleave: column i of every block that has one, block order
InterleaveBlocks(blocks) ==
  LET nb == Len(blocks)
      longest == IF nb = 0 THEN 0
                 ELSE CHOOSE k \in {Len(blocks[b]) : b \in 1..nb} :
                        \A b \in 1..nb : Len(blocks[b]) <= k
      cells == [i \in 1..(longest * nb) |->
                  <<((i - 1) \div nb) + 1, ((i - 1) % nb) + 1>>]
  IN  Loop(LAMBDA acc, i :
             IF cells[i][1] <= Len(blocks[cells[i][2]])
             THEN Append(acc, blocks[cells[i][2]][cells[i][1]])
             ELSE acc,
           <<>>, 1, longest * nb)

\* the codeword sequence of a block split: interleaved data, interleaved EC
BlockCodewords(data, nb, ecPerBlock) ==
  LET blocks == SplitBlocks(data, nb)
      ecs == [b \in 1..nb |-> computeEC(<<>>, blocks[b], ecPerBlock).ec]
  IN  InterleaveBlocks(blocks) \o InterleaveBlocks(ecs)

\* C11: the bits placed in the matrix are those of the data codewords split
\* sequentially into the level's group-1 and group-2 blocks, each block with
\* its own EC codewords of the shared degree, data blocks interleaved
\* column-wise and then EC blocks interleaved column-wise.
C11_BlocksInterleaved ==
  (prog = "lite" /\ pc = "ec" /\ IsNum(ecCount))
    => finalBits = BitsOfBytes(BlockCodewords(dataCodewords,
                                              NUM_BLOCKS[ecLevel][version],
                                              ecCount.v))

-----------------------------------------------------------------------------
(* The fixed dark module.                                                  *)

\* C12: in the finished symbol of generate() and of encode the module at
\* row 4 * version + 9, column 8 is dark.
C12_DarkModule ==
  /\ (prog = "lite" /\ pc = "done") => isDark(matrix, 4 * version + 9, 8)
  /\ (prog = "part_000" /\ pc0 = "done") => bestM0[4 * v0 + 9][8] = "true"

-----------------------------------------------------------------------------
(* Version information, versions 7 and above.                              *)

\* the 18-bit version-information word: 6 bits of version, 12 bits of
\* BCH(18,6) remainder modulo 0x1F25
VersionWord(v) == Shl(v, 12) + Gf2Mod(Shl(v, 12), 7973)

\* bit i of the word, i in 0..17, sits at row i \div 3, column
\* size - 11 + i % 3 of the top-right block and at the transposed cell of
\* the bottom-left block
VersionCell1(i, n) == <<i \div 3, n - 11 + (i % 3)>>
VersionCell2(i, n) == <<n - 11 + (i % 3), i \div 3>>

\* C13: for version >= 7 the cells of the two version-information blocks are
\* reserved once the data bits are placed, and the finished symbol holds the
\* version-information word in both blocks.
C13_VersionInfoReserved ==
  (prog = "lite" /\ version >= 7) =>
    /\ pc \in {"mask", "chosen", "done"} =>
         \A i \in 0..17 :
           /\ IsObj(matrix.modules[VersionCell1(i, matrix.size)[1]][VersionCell1(i, matrix.size)[2]])
           /\ IsObj(matrix.modules[VersionCell2(i, matrix.size)[1]][VersionCell2(i, matrix.size)[2]])
    /\ pc = "done" =>
         \A i \in 0..17 :
           LET bit == BitAnd(Shr(VersionWord(version), i), 1) = 1
           IN  /\ isDark(matrix, VersionCell1(i, matrix.size)[1],
                         VersionCell1(i, matrix.size)[2]) = bit
               /\ isDark(matrix, VersionCell2(i, matrix.size)[1],
                         VersionCell2(i, matrix.size)[2]) = bit

-----------------------------------------------------------------------------
(* part_000: the loop of QRCode.generate over the versions.                *)

\* the modules of a version v symbol that carry codewords
SymbolBits(v) == 8 * TOTAL_CODEWORDS[v]

\* the versions from the starting version to MAX_VERSION that hold nbits
HoldingVersions(start, nbits) ==
  {v \in start..MAX_VERSION : SymbolBits(v) >= nbits}

\* the modules placeData fills: those drawn by no function pattern
FreeModules(mat) ==
  Cardinality({yx \in (DOMAIN mat) \X (DOMAIN mat) : mat[yx[1]][yx[2]] = null})

\* C14: generate throws "Data too long to encode in QR code" exactly when no
\* version from the starting version to 40 holds the encoded text; otherwise
\* it returns the symbol of the smallest such version and every bit of the
\* data stream has a module.
C14_ThrowsIffTooLong ==
  (prog = "part_000" /\ pc0 \in {"done", "threw"}) =>
    LET start == IF version0 = 0 THEN 1 ELSE version0
        nbits == 8 * Len(encodeSegments(text0).data)
        holding == HoldingVersions(start, nbits)
    IN  /\ (pc0 = "threw") <=> (holding = {})
        /\ pc0 = "threw" => err0 = "Data too long to encode in QR code"
        /\ pc0 = "done" =>
             /\ v0 \in holding /\ \A w \in holding : v0 <= w
             /\ Len(bits0) <= FreeModules(m0)

-----------------------------------------------------------------------------
(* part_000: the length of the payload.                                    *)

\* C15: the bits of encodeSegments(text).data number 10 per 3 digits plus 4
\* or 7 for 1 or 2 remaining digits in Numeric mode, and 11 per pair of
\* characters plus 6 for a trailing one in Alphanumeric mode.
C15_PayloadBitCount ==
  (prog = "part_000" /\ pc0 \in {"mask", "done"}) =>
    LET seg == encodeSegments(text0)
        n == Len(text0)
    IN  /\ bits0 = toBitArray0(seg.data)
        /\ seg.mode = 1 =>
             Len(bits0) = 10 * (n \div 3)
                          + (CASE n % 3 = 0 -> 0 [] n % 3 = 1 -> 4 [] n % 3 = 2 -> 7)
        /\ seg.mode = 2 => Len(bits0) = 11 * (n \div 2) + 6 * (n % 2)

-----------------------------------------------------------------------------
(* The order in which the data placement visits the modules.               *)

\* the cells <<r, c>> one pass of the while loop of placeDataBits visits, in
\* order: for i, for cOff
PairCells(size, col, dirUp) ==
  [k \in 1..(2 * size) |->
     <<IF dirUp THEN size - 1 - ((k - 1) \div 2) ELSE (k - 1) \div 2,
       col - ((k - 1) % 2)>>]

\* the pass without the test for column 6
ZigzagStepNoSkip(st, size) ==
  [cells |-> st.cells \o PairCells(size, st.col, st.dirUp),
   col |-> st.col - 2, dirUp |-> ~st.dirUp, passes |-> st.passes + 1]

\* one pass of the while loop of placeDataBits, the modules left aside
ZigzagStep(st, size) ==
  LET col == IF st.col = 6 THEN st.col - 1 ELSE st.col
  IN  [cells |-> st.cells \o PairCells(size, col, st.dirUp),
       col |-> col - 2, dirUp |-> ~st.dirUp, passes |-> st.passes + 1]

\* the loops of placeDataBits: the cells visited, the column at the exit and
\* the number of passes
Zigzag(size) ==
  While(LAMBDA a : a.col > 0,
        LAMBDA a : ZigzagStep(a, size),
        [cells |-> <<>>, col |-> size - 1, dirUp |-> TRUE, passes |-> 0],
        MaxPasses)

\* the cells <<y, xx>> one pass of the while loop of placeData visits
PairCells0(n, x, dirUp) ==
  [k \in 1..(2 * n) |->
     <<IF dirUp THEN n - 1 - ((k - 1) \div 2) ELSE (k - 1) \div 2,
       x - ((k - 1) % 2)>>]

\* one pass of the while loop of placeData of part_000
ZigzagStep0(st, n) ==
  LET x == IF st.col = 6 THEN st.col - 1 ELSE st.col
  IN  [cells |-> st.cells \o PairCells0(n, x, st.dirUp),
       col |-> x - 2, dirUp |-> ~st.dirUp, passes |-> st.passes + 1]

\* the loops of placeData of part_000
Zigzag0(n) ==
  While(LAMBDA a : a.col > 0,
        LAMBDA a : ZigzagStep0(a, n),
        [cells |-> <<>>, col |-> n - 1, dirUp |-> TRUE, passes |-> 0],
        MaxPasses)

\* the traversal z of a matrix of size n left the loop, visited every cell
\* outside column 6 once and none of column 6, began at the bottom of the two
\* rightmost columns and changed its vertical direction with every pair
CanonicalZigzag(z, n) ==
  /\ z.col <= 0
  /\ z.passes = (n - 1) \div 2
  /\ Len(z.cells) = n * (n - 1)
  /\ Cardinality({z.cells[k] : k \in 1..Len(z.cells)}) = n * (n - 1)
  /\ \A k \in 1..Len(z.cells) :
       LET pass == (k - 1) \div (2 * n)
           i == ((k - 1) % (2 * n)) \div 2
       IN  /\ z.cells[k][1] = IF pass % 2 = 0 THEN n - 1 - i ELSE i
           /\ z.cells[k][2] \in (0..(n - 1)) \ {6}
           /\ pass = 0 => z.cells[k][2] = n - 1 - ((k - 1) % 2)

\* the bits placed along a list of cells: each empty cell takes the next bit,
\* or false when the bits ran out
PlaceAlong(q, cells, dataBits) ==
  Loop(LAMBDA a, k :
         IF isEmpty(a.q, cells[k][1], cells[k][2])
         THEN IF a.bitIndex < Len(dataBits)
              THEN [q |-> setModule(a.q, cells[k][1], cells[k][2],
                                    dataBits[a.bitIndex + 1], FALSE),
                    bitIndex |-> a.bitIndex + 1]
              ELSE [q |-> setModule(a.q, cells[k][1], cells[k][2], FALSE, FALSE),
                    bitIndex |-> a.bitIndex]
         ELSE a,
       [q |-> q, bitIndex |-> 0], 1, Len(cells))

\* the masked bits placed along a list of cells, part_000
PlaceAlong0(mat, cells, data, mask_) ==
  Loop(LAMBDA a, k :
         LET bit == IF a.bitIndex < Len(data) THEN data[a.bitIndex + 1] ELSE 0
             masked == IF maskFunc(mask_, cells[k][1], cells[k][2])
                       THEN bit = 0 ELSE bit # 0
         IN  IF a.m[cells[k][1]][cells[k][2]] # null THEN a
             ELSE [m |-> Put(a.m, cells[k][1], cells[k][2], masked),
                   bitIndex |-> a.bitIndex + 1],
       [m |-> mat, bitIndex |-> 0], 1, Len(cells)).m

\* C16: for every version the loops of placeDataBits and of placeData end,
\* visit every cell outside column 6 exactly once and no cell of column 6,
\* from the bottom of the two rightmost columns with the direction flipped
\* after each pair; the matrix they return is the one filled along that
\* order and has no unset module.
C16_ZigzagCoversMatrix ==
  /\ (prog = "lite" /\ pc = "mask") =>
       /\ CanonicalZigzag(Zigzag(matrix.size), matrix.size)
       /\ CanonicalZigzag(Zigzag0(getSize(version)), getSize(version))
       /\ [q |-> matrix, bitIndex |-> bitIndex]
            = PlaceAlong(placeFunctionPatterns(QRMatrix(version)),
                         Zigzag(matrix.size).cells, finalBits)
       /\ \A r \in 0..(matrix.size - 1) : \A c \in 0..(matrix.size - 1) :
            ~isEmpty(matrix, r, c)
  /\ (prog = "part_000" /\ pc0 = "mask" /\ mask0 < 8) =>
       LET placed == placeData(m0, bits0, mask0)
       IN  /\ placed = PlaceAlong0(m0, Zigzag0(length(m0)).cells, bits0, mask0)
           /\ \A y \in DOMAIN placed : \A x \in DOMAIN placed : placed[y][x] # null

\* placeDataBits has run on the largest matrix, with bits to spare
C16_Witness ==
  /\ prog = "lite" /\ pc = "mask"
  /\ version = MaxZigVersion
  /\ bitIndex > 0 /\ bitIndex < Len(finalBits)

-----------------------------------------------------------------------------
(* Penalty rule 3.                                                         *)

\* the 11-module sequence of rule 3 and its reverse
FinderLike == <<TRUE, FALSE, TRUE, TRUE, TRUE, FALSE, TRUE, FALSE, FALSE, FALSE, FALSE>>
FinderLikeReversed == [j \in 1..11 |-> FinderLike[12 - j]]

\* the number of (row or column, offset) places of a matrix of size n where
\* one of the two sequences lies; dark(r, c) is the colour of a module
Occurrences(dark, n) ==
  Cardinality({p \in {"row", "column"} \X (0..(n - 1)) \X (0..(n - 11)) :
     LET seq == [j \in 1..11 |->
                   IF p[1] = "row" THEN dark[p[2]][p[3] + j - 1]
                   ELSE dark[p[3] + j - 1][p[2]]]
     IN  seq = FinderLike \/ seq = FinderLikeReversed})

\* C17: on every candidate matrix the rule 3 part of penaltyScore and of
\* penalty is 40 times the number of places, in rows and columns, where the
\* sequence 1,0,1,1,1,0,1,0,0,0,0 or its reverse lies.
C17_PatternPenaltyPerOccurrence ==
  /\ (prog = "lite" /\ pc = "mask" /\ m < 8) =>
       LET bits == toBitArray(applyMask(matrix, m))
       IN  patternPenalty(bits, matrix.size) = 40 * Occurrences(bits, matrix.size)
  /\ (prog = "part_000" /\ pc0 = "mask" /\ mask0 < 8) =>
       LET testM == drawFormat(placeData(m0, bits0, mask0), ecl0, mask0)
           n == length(testM)
       IN  linePenalty(testM, n)
             = 40 * Occurrences([y \in 0..(n - 1) |-> [x \in 0..(n - 1) |->
                                   testM[y][x] = "true"]], n)

-----------------------------------------------------------------------------
(* Alignment patterns.                                                     *)

\* alignment-pattern centres of ISO/IEC 18004 for versions 1, 2, 7, 15, 32
ISO_CENTERS ==
  (1 :> <<>>) @@ (2 :> <<6, 18>>) @@ (7 :> <<6, 22, 38>>)
  @@ (15 :> <<6, 26, 48, 70>>) @@ (32 :> <<6, 34, 60, 86, 112, 138>>)

\* the 5x5 pattern lies in q around the centre <<r, c>>
StampedAt(q, r, c) ==
  \A dr \in 0..4 : \A dc \in 0..4 :
    isDark(q, r - 2 + dr, c - 2 + dc) = (AlignmentPattern[dr + 1][dc + 1] # 0)

\* C18: alignmentPatternCenters(v) is the list of centres of the standard,
\* and the matrix carries a 5x5 pattern around every pair of centres but the
\* three at the finder patterns.
C18_AlignmentCenters ==
  (prog = "lite" /\ pc = "mask" /\ version \in DOMAIN ISO_CENTERS) =>
    LET centers == ISO_CENTERS[version]
    IN  /\ alignmentPatternCenters(version) = centers
        /\ \A i \in 1..Len(centers) : \A j \in 1..Len(centers) :
             LET r == centers[i]
                 c == centers[j]
             IN  (r = 6 /\ (c = 6 \/ c = matrix.size - 7))
                 \/ (c = 6 /\ r = matrix.size - 7)
                 \/ StampedAt(matrix, r, c)

=============================================================================
